---- MODULE Spec2Model ----
(***************************************************************************)
(* Session state machine of the OpenClawCity channel adapter               *)
(* (src/src/adapter.ts).  The file holds two revisions of the class: the   *)
(* upgrade-time handshake (lines 1-424, credentials and watermark in the   *)
(* connection URL, close code 4000 handled) and the post-open handshake    *)
(* (lines 426-810, hello/resume frame written on 'open').  The variable    *)
(* variant selects the revision; everything else is common.                *)
(*                                                                         *)
(* Every method of the class is an operator from adapter state to adapter  *)
(* state (a record w); an action runs one macrotask: one event-loop        *)
(* callback with every method it calls, followed by the microtask the      *)
(* callback queued (the catch block of connect()).                         *)
(***************************************************************************)
EXTENDS Integers, Sequences, FiniteSets, TLC

\* ---------------------------------------------------------------- bounds
MaxSockets == 2      \* transports created in one run
MaxSeq == 2          \* event sequence numbers 1..MaxSeq
MaxInflight == 2     \* standalone dispatches pending at once
MaxDrains == 2       \* backlog drains pending at once
MaxAttempt == 5      \* attempt counts 0..MaxAttempt given to calculateBackoff
MaxInstances == 4    \* startAccount calls for one account id

\* ------------------------------------------------------ program constants
PROTOCOL_VERSION == 1
reconnectBaseMs == 100
reconnectMaxMs == 1000
MinBackoffMs == 100
SupersededCode == 4000
RetryAfterSec == 5

Seqs == 1..MaxSeq
SockIds == 1..MaxSockets
Variants == {"upgrade", "frame"}
ConnectionState == {"DISCONNECTED", "CONNECTING", "CONNECTED", "DISCONNECTING", "FAILED"}
CloseCodes == {1000, 1006, SupersededCode}
\* Math.random() * 2 - 1 lies in [-1, 1); in tenths
JitterTenths == {-10, 9}
Outcomes == {"ok", "throw"}

VARIABLES
  variant,        \* which revision of the class runs
  state,          \* this.state
  lastAckSeq,     \* this.lastAckSeq
  attemptCount,   \* this.attemptCount
  stopped,        \* this.stopped
  paused,         \* this.paused
  reconnecting,   \* this.reconnecting
  pingInterval,   \* this.pingInterval # null
  reconnectTimer, \* this.reconnectTimer: which callback is pending, and its delay
  pendingReject,  \* this.pendingReject: 0 (null) or the openSocket promise it rejects
  ws,             \* this.ws: 0 (null) or a socket id
  sockets,        \* the WebSocket objects created so far
  openP,          \* the promise of each openSocket() call (awaited by that connect())
  nSock,          \* number of WebSocket objects created
  inflight,       \* standalone handleCityEvent calls awaiting onMessage, per seq
  drains,         \* dispatchPendingEvents loops in progress
  out,            \* frames written by the last macrotask
  calls,          \* consumer callbacks invoked by the last macrotask
  lastClose,      \* code of the last 'close' event handled (0: none)
  sched,          \* history: backoff reconnects scheduled since this.ws was created
  schedSinceWelcome, \* history: backoff reconnects scheduled since the last welcome
  op,             \* the last macrotask
  srvMax,         \* replaying server: events 1..srvMax exist
  srvWelcomed,    \* replaying server: welcome already written to the connection
  chan,           \* replaying server: frames in flight to the current transport
  bk,             \* one call of calculateBackoff: configuration, arguments and result
  nz,             \* calls of normalize: two events and the envelopes made of them
  acct            \* startAccount: the adapters table entry of one account id and
                  \* the adapter instances created for it

sessionVars == <<variant, state, lastAckSeq, attemptCount, stopped, paused, reconnecting,
                 pingInterval, reconnectTimer, pendingReject, ws, sockets, openP, nSock,
                 inflight, drains, out, calls, lastClose, sched, schedSinceWelcome,
                 op>>
coreVars == <<sessionVars, bk, nz, acct>>
srvVars == <<srvMax, srvWelcomed, chan>>
vars == <<variant, state, lastAckSeq, attemptCount, stopped, paused, reconnecting,
          pingInterval, reconnectTimer, pendingReject, ws, sockets, openP, nSock,
          inflight, drains, out, calls, lastClose, sched, schedSinceWelcome, op,
          srvMax, srvWelcomed, chan, bk, nz, acct>>

\* ------------------------------------------------------------- data shapes
NoTimer == [kind |-> "none", delay |-> 0]
NoFrame == [type |-> "none", seq |-> 0]
NoSocket == [ready |-> "NONE", attached |-> FALSE, urlLastAckSeq |-> 0,
             first |-> NoFrame, errored |-> FALSE]
\* a socket after removeAllListeners() + close(): nothing of it reaches the adapter
DetachedSocket == [ready |-> "CLOSED", attached |-> FALSE, urlLastAckSeq |-> 0,
                   first |-> NoFrame, errored |-> FALSE]
Call(cb, seq, st) == [cb |-> cb, seq |-> seq, st |-> st]
Op(name, seq, res) == [name |-> name, seq |-> seq, res |-> res]
Range(s) == {s[i] : i \in DOMAIN s}

\* the adapter and its sockets as one record, so that methods compose
Cur == [variant |-> variant, state |-> state, lastAckSeq |-> lastAckSeq,
        attemptCount |-> attemptCount, stopped |-> stopped, paused |-> paused,
        reconnecting |-> reconnecting, pingInterval |-> pingInterval,
        reconnectTimer |-> reconnectTimer, pendingReject |-> pendingReject,
        ws |-> ws, sockets |-> sockets, openP |-> openP, nSock |-> nSock,
        inflight |-> inflight, drains |-> drains, out |-> <<>>, calls |-> <<>>,
        lastClose |-> lastClose, sched |-> sched,
        schedSinceWelcome |-> schedSinceWelcome]

CommitAdapter(w) ==
  /\ variant' = w.variant
  /\ state' = w.state
  /\ lastAckSeq' = w.lastAckSeq
  /\ attemptCount' = w.attemptCount
  /\ stopped' = w.stopped
  /\ paused' = w.paused
  /\ reconnecting' = w.reconnecting
  /\ pingInterval' = w.pingInterval
  /\ reconnectTimer' = w.reconnectTimer
  /\ pendingReject' = w.pendingReject
  /\ ws' = w.ws
  /\ sockets' = w.sockets
  /\ openP' = w.openP
  /\ nSock' = w.nSock
  /\ inflight' = w.inflight
  /\ drains' = w.drains
  /\ out' = w.out
  /\ calls' = w.calls
  /\ lastClose' = w.lastClose
  /\ sched' = w.sched
  /\ schedSinceWelcome' = w.schedSinceWelcome

\* a macrotask of the adapter: nothing else changes
Commit(w) ==
  /\ CommitAdapter(w)
  /\ bk' = bk
  /\ nz' = nz
  /\ acct' = acct

Min(a, b) == IF a < b THEN a ELSE b
Max(a, b) == IF a > b THEN a ELSE b

\* ------------------------------------------------------------ the methods
setState(w, next) ==
  IF w.state # next
  THEN [w EXCEPT !.state = next, !.calls = Append(@, Call("onStateChange", 0, next))]
  ELSE w

clearPing(w) == [w EXCEPT !.pingInterval = FALSE]

startPing(w) == [clearPing(w) EXCEPT !.pingInterval = TRUE]

clearReconnectTimer(w) == [w EXCEPT !.reconnectTimer = NoTimer]

\* ws.readyState === WebSocket.OPEN
IsOpen(w) == w.ws # 0 /\ w.sockets[w.ws].ready = "OPEN"

send(w, frame) ==
  IF IsOpen(w)
  THEN [w EXCEPT !.out = Append(@, [sock |-> w.ws, type |-> frame.type, seq |-> frame.seq]),
                 !.sockets[w.ws].first = IF @ = NoFrame THEN frame ELSE @]
  ELSE w

\* a sendAck that moves the watermark only when the frame is written
sendAckWhenOpen(w, seq) ==
  IF IsOpen(w) THEN send([w EXCEPT !.lastAckSeq = seq], [type |-> "ack", seq |-> seq])
  ELSE w

\* a sendAck that keeps the maximum
sendAckMonotonicMax(w, seq) ==
  send([w EXCEPT !.lastAckSeq = Max(@, seq)], [type |-> "ack", seq |-> seq])

sendAck(w, seq) == send([w EXCEPT !.lastAckSeq = seq], [type |-> "ack", seq |-> seq])

\* a sendReply that writes only in state CONNECTED
sendReplyWhenConnected(w, reply) ==
  IF w.state = "CONNECTED" THEN send(w, reply) ELSE w

sendReply(w, reply) == send(w, reply)

\* a handshake that is always fresh
HandshakeFrameAlwaysHello(las) == [type |-> "hello", seq |-> 0]

HandshakeFrame(las) ==
  IF las > 0 THEN [type |-> "resume", seq |-> las] ELSE [type |-> "hello", seq |-> 0]

sendHandshake(w) == send(w, HandshakeFrame(w.lastAckSeq))

\* a closeSocket that closes the transport without removing its listeners
closeSocketKeepsListeners(w) ==
  IF w.ws # 0
  THEN [w EXCEPT !.sockets[w.ws].ready = "CLOSING", !.ws = 0]
  ELSE w

closeSocket(w) ==
  IF w.ws # 0
  THEN [w EXCEPT !.sockets[w.ws] = DetachedSocket, !.ws = 0]
  ELSE w

\* resolve()/reject() of the promise created by the p-th openSocket(); a promise
\* settles once
settle(w, p, how) ==
  IF w.openP[p] = "pending" THEN [w EXCEPT !.openP[p] = how] ELSE w

\* a stop() without the early return, which notifies the state unconditionally
stopAgainNotifies(w) ==
  LET w1 == clearReconnectTimer(clearPing([w EXCEPT !.stopped = TRUE]))
      w2 == IF w1.pendingReject # 0
            THEN [settle(w1, w1.pendingReject, "rejected") EXCEPT !.pendingReject = 0]
            ELSE w1
  IN [closeSocket(w2) EXCEPT !.state = "DISCONNECTED",
                             !.calls = Append(@, Call("onStateChange", 0, "DISCONNECTED"))]

\* a stop() that leaves the reconnect timer armed
stopLeavesReconnectTimer(w) ==
  IF w.stopped THEN w
  ELSE LET w1 == clearPing([w EXCEPT !.stopped = TRUE])
           w2 == IF w1.pendingReject # 0
                 THEN [settle(w1, w1.pendingReject, "rejected") EXCEPT !.pendingReject = 0]
                 ELSE w1
       IN setState(closeSocket(w2), "DISCONNECTED")

stop(w) ==
  IF w.stopped THEN w
  ELSE LET w1 == clearReconnectTimer(clearPing([w EXCEPT !.stopped = TRUE]))
           w2 == IF w1.pendingReject # 0
                 THEN [settle(w1, w1.pendingReject, "rejected") EXCEPT !.pendingReject = 0]
                 ELSE w1
       IN setState(closeSocket(w2), "DISCONNECTED")

\* a constructor that does not wire the signal
abortListenerUnwired(w) == w

\* the 'abort' listener the constructor adds to opts.signal
abortListener(w) == stop(w)

\* what onAbort of startAccount does to the adapter
hostOnAbort(w) == stop(w)

Pow2(n) == 2 ^ n

\* a calculateBackoff without the floor
calculateBackoffNoFloor(base, max, attempt, j) ==
  LET exponential == base * Pow2(attempt)
      capped == Min(exponential, max)
      jitter == capped * 3 * j
  IN capped * 100 + jitter

\* calculateBackoff for a configuration (base, max), in hundredths of a
\* millisecond; j is (Math.random() * 2 - 1) in tenths, so that
\* capped * 0.3 * (j / 10) is capped * 3 * j hundredths
calculateBackoffExact(base, max, attempt, j) ==
  LET exponential == base * Pow2(attempt)
      capped == Min(exponential, max)
      jitter == capped * 3 * j
  IN Max(MinBackoffMs * 100, capped * 100 + jitter)

\* the delay of this adapter's configuration, in whole milliseconds
calculateBackoff(attempt, j) ==
  calculateBackoffExact(reconnectBaseMs, reconnectMaxMs, attempt, j) \div 100

\* a scheduleReconnect that counts the calls the guard suppresses
scheduleReconnectCountsSuppressed(w, j) ==
  IF w.stopped THEN w
  ELSE IF w.reconnecting THEN [w EXCEPT !.attemptCount = @ + 1]
  ELSE LET delay == calculateBackoff(w.attemptCount, j)
           w1 == [w EXCEPT !.reconnecting = TRUE, !.attemptCount = @ + 1, !.sched = @ + 1,
                           !.schedSinceWelcome = @ + 1]
       IN [clearReconnectTimer(w1) EXCEPT !.reconnectTimer = [kind |-> "backoff", delay |-> delay]]

scheduleReconnect(w, j) ==
  IF w.stopped \/ w.reconnecting THEN w
  ELSE LET delay == calculateBackoff(w.attemptCount, j)
           w1 == [w EXCEPT !.reconnecting = TRUE, !.attemptCount = @ + 1, !.sched = @ + 1,
                           !.schedSinceWelcome = @ + 1]
       IN [clearReconnectTimer(w1) EXCEPT !.reconnectTimer = [kind |-> "backoff", delay |-> delay]]

\* the URL of the upgrade-time revision carries lastAckSeq only when it is > 0
UrlLastAckSeq(w) == IF w.variant = "upgrade" /\ w.lastAckSeq > 0 THEN w.lastAckSeq ELSE 0

\* the executor of the promise openSocket() returns; runs synchronously
openSocket(w) ==
  LET id == w.nSock + 1 IN
  IF w.stopped THEN w
  ELSE LET w1 == [w EXCEPT !.nSock = id, !.openP[id] = "pending", !.pendingReject = id,
                           !.sched = 0]
           w2 == closeSocket(w1)
       IN [w2 EXCEPT !.sockets[id] = [ready |-> "CONNECTING", attached |-> TRUE,
                                      urlLastAckSeq |-> UrlLastAckSeq(w2),
                                      first |-> NoFrame, errored |-> FALSE],
                     !.ws = id]

\* a connect() whose catch block rethrows
connectOutcomeRethrows(opened) == opened

\* the promise connect() returns, from the openSocket() promise it awaits: it
\* resolves after the await, and the catch block returns on both of its paths
connectOutcome(opened) ==
  CASE opened = "resolved" -> "resolved"
    [] opened = "rejected" -> "resolved"
    [] OTHER -> opened

\* connect() up to its await
connect(w) ==
  IF w.stopped THEN w ELSE openSocket(setState(w, "CONNECTING"))

\* a catch block that ignores the timer handleError may have set
connectCatchIgnoresTimer(w, j) ==
  IF w.stopped THEN w ELSE scheduleReconnect(w, j)

\* the catch block of connect(), run when the awaited promise rejects
connectCatch(w, j) ==
  IF w.stopped THEN w
  ELSE IF w.reconnectTimer = NoTimer THEN scheduleReconnect(w, j) ELSE w

\* microtasks queued by a macrotask that took the adapter from w0 to w1
RunMicrotasks(w0, w1, j) ==
  IF \E p \in SockIds : w0.openP[p] = "pending" /\ w1.openP[p] = "rejected"
  THEN connectCatch(w1, j)
  ELSE w1

\* a handleCityEvent that acknowledges on receipt, before the consumer has run
handleCityEventCallAckFirst(w, seq) ==
  [sendAck(w, seq) EXCEPT !.calls = Append(@, Call("onMessage", seq, ""))]

\* handleCityEvent up to its await: normalize, then call onMessage
handleCityEventCall(w, seq) ==
  [w EXCEPT !.calls = Append(@, Call("onMessage", seq, ""))]

\* a handleCityEvent whose catch block only logs
handleCityEventSettledNoAckOnThrow(w, seq, outcome) ==
  IF outcome = "ok" THEN sendAck(w, seq) ELSE w

\* handleCityEvent after its await: the try branch or the catch branch
handleCityEventSettled(w, seq, outcome) ==
  IF outcome = "ok" THEN sendAck(w, seq) ELSE sendAck(w, seq)

RECURSIVE CallAll(_, _)
CallAll(w, events) ==
  IF events = <<>> THEN w
  ELSE CallAll([w EXCEPT !.calls = Append(@, Call("onMessage", Head(events), ""))],
               Tail(events))

\* a dispatchPendingEvents that does not await: every callback starts at once
dispatchPendingEventsNoAwait(w, events) ==
  [CallAll(w, events) EXCEPT
     !.drains = Append(@, [cur |-> Head(events), rest |-> Tail(events)])]

\* dispatchPendingEvents: the loop is at event cur, rest is still to come
dispatchPendingEvents(w, events) ==
  [handleCityEventCall(w, Head(events)) EXCEPT
     !.drains = Append(@, [cur |-> Head(events), rest |-> Tail(events)])]

WelcomePaused(w, frame) ==
  IF w.variant = "upgrade"
  THEN (IF frame.paused = "absent" THEN FALSE ELSE frame.paused = "true")
  ELSE FALSE

\* a handleWelcome that keeps the attempt counter
handleWelcomeKeepsCounter(w, frame) ==
  LET w1 == setState([w EXCEPT !.schedSinceWelcome = 0], "CONNECTED")
      w2 == [w1 EXCEPT !.reconnecting = FALSE, !.paused = WelcomePaused(w, frame)]
      w3 == startPing(w2)
      w4 == [w3 EXCEPT !.calls = Append(@, Call("onWelcome", 0, ""))]
  IN IF Len(frame.pending) > 0 THEN dispatchPendingEvents(w4, frame.pending) ELSE w4

\* a handleWelcome that drops the backlog
handleWelcomeNoBacklog(w, frame) ==
  LET w1 == setState([w EXCEPT !.schedSinceWelcome = 0], "CONNECTED")
      w2 == [w1 EXCEPT !.attemptCount = 0, !.reconnecting = FALSE,
                       !.paused = WelcomePaused(w, frame)]
      w3 == startPing(w2)
  IN [w3 EXCEPT !.calls = Append(@, Call("onWelcome", 0, ""))]

handleWelcome(w, frame) ==
  LET w1 == setState([w EXCEPT !.schedSinceWelcome = 0], "CONNECTED")
      w2 == [w1 EXCEPT !.attemptCount = 0, !.reconnecting = FALSE,
                       !.paused = WelcomePaused(w, frame)]
      w3 == startPing(w2)
      w4 == [w3 EXCEPT !.calls = Append(@, Call("onWelcome", 0, ""))]
  IN IF Len(frame.pending) > 0 THEN dispatchPendingEvents(w4, frame.pending) ELSE w4

\* a handleError that treats an expired token as recoverable
handleErrorTokenRecoverable(w, frame) ==
  LET w1 == [w EXCEPT !.calls = Append(@, Call("onError", 0, frame.reason))] IN
  IF frame.reason = "auth_failed" THEN stop(w1)
  ELSE IF frame.reason = "rate_limited" /\ frame.retryAfter # 0
       THEN [clearReconnectTimer(w1) EXCEPT
               !.reconnectTimer = [kind |-> "rate", delay |-> frame.retryAfter * 1000]]
       ELSE w1

\* a handleError for which every reason but rate_limited is fatal
handleErrorOtherFatal(w, frame) ==
  LET w1 == [w EXCEPT !.calls = Append(@, Call("onError", 0, frame.reason))] IN
  IF frame.reason # "rate_limited" THEN stop(w1)
  ELSE IF frame.retryAfter # 0
       THEN [clearReconnectTimer(w1) EXCEPT
               !.reconnectTimer = [kind |-> "rate", delay |-> frame.retryAfter * 1000]]
       ELSE w1

handleError(w, frame) ==
  LET w1 == [w EXCEPT !.calls = Append(@, Call("onError", 0, frame.reason))] IN
  IF frame.reason \in {"auth_failed", "token_expired"} THEN stop(w1)
  ELSE IF frame.reason = "rate_limited" /\ frame.retryAfter # 0
       THEN [clearReconnectTimer(w1) EXCEPT
               !.reconnectTimer = [kind |-> "rate", delay |-> frame.retryAfter * 1000]]
       ELSE w1

\* a handleFrame that awaits handleCityEvent: while a dispatch is pending the
\* frames that follow wait behind it
handleFrameAwaitsDispatch(w, frame) ==
  IF \E s \in DOMAIN w.inflight : w.inflight[s] > 0 THEN w
  ELSE CASE frame.type = "city_event" ->
              [handleCityEventCall(w, frame.seq) EXCEPT !.inflight[frame.seq] = @ + 1]
         [] frame.type = "error" -> handleError(w, frame)
         [] frame.type = "paused" -> [w EXCEPT !.paused = TRUE]
         [] frame.type = "resumed" -> [w EXCEPT !.paused = FALSE]
         [] OTHER -> w

\* handleFrame: standalone events are dispatched with `void`, not awaited
handleFrame(w, frame) ==
  CASE frame.type = "city_event" ->
         [handleCityEventCall(w, frame.seq) EXCEPT !.inflight[frame.seq] = @ + 1]
    [] frame.type = "error" -> handleError(w, frame)
    [] frame.type = "paused" -> [w EXCEPT !.paused = TRUE]
    [] frame.type = "resumed" -> [w EXCEPT !.paused = FALSE]
    [] OTHER -> w

\* a 'message' handler that passes an error frame to handleFrame like any other
onMessageEventErrorUnsettled(w, frame) ==
  IF frame.type = "malformed" THEN w
  ELSE IF frame.type = "welcome"
       THEN settle(handleWelcome([w EXCEPT !.pendingReject = 0], frame), w.ws, "resolved")
  ELSE handleFrame(w, frame)

\* a 'message' handler that reports an unparsable frame to onError
onMessageEventReportsMalformed(w, frame) ==
  IF frame.type = "malformed"
  THEN [w EXCEPT !.calls = Append(@, Call("onError", 0, "malformed"))]
  ELSE IF frame.type = "welcome"
       THEN settle(handleWelcome([w EXCEPT !.pendingReject = 0], frame), w.ws, "resolved")
  ELSE IF frame.type = "error"
       THEN LET w1 == handleError([w EXCEPT !.pendingReject = 0], frame)
            IN settle(w1, w.ws, "rejected")
  ELSE handleFrame(w, frame)

\* ws.on('message') of socket w.ws
onMessageEvent(w, frame) ==
  IF frame.type = "malformed" THEN w
  ELSE IF frame.type = "welcome"
       THEN settle(handleWelcome([w EXCEPT !.pendingReject = 0], frame), w.ws, "resolved")
  ELSE IF frame.type = "error"
       THEN LET w1 == handleError([w EXCEPT !.pendingReject = 0], frame)
            IN settle(w1, w.ws, "rejected")
  ELSE handleFrame(w, frame)

\* ws.on('open') of socket w.ws
onOpenEvent(w) ==
  LET w1 == [w EXCEPT !.sockets[w.ws].ready = "OPEN"] IN
  IF w1.stopped
  THEN settle([w1 EXCEPT !.sockets[w.ws].ready = "CLOSING"], w.ws, "rejected")
  ELSE IF w1.variant = "frame" THEN sendHandshake(w1) ELSE w1

\* ws.on('close') of socket w.ws
onCloseEvent(w, code, j) ==
  LET w1 == clearPing([w EXCEPT !.sockets[w.ws].ready = "CLOSED", !.lastClose = code]) IN
  IF w1.stopped THEN w1
  ELSE IF w1.variant = "upgrade" /\ code = SupersededCode THEN stop(w1)
  ELSE LET w2 == setState(w1, "DISCONNECTED")
       IN IF w2.reconnectTimer = NoTimer THEN scheduleReconnect(w2, j) ELSE w2

\* ws.on('error') of socket w.ws
onErrorEvent(w) ==
  LET w1 == [w EXCEPT !.sockets[w.ws].errored = TRUE,
                      !.sockets[w.ws].ready = IF @ = "CLOSED" THEN @ ELSE "CLOSING"] IN
  IF w1.pendingReject # 0
  THEN settle([w1 EXCEPT !.pendingReject = 0], w.ws, "rejected")
  ELSE w1

\* the setTimeout callback of scheduleReconnect
backoffTimerFired(w) ==
  LET w1 == [w EXCEPT !.reconnectTimer = NoTimer, !.reconnecting = FALSE] IN
  IF w1.stopped THEN w1 ELSE connect(w1)

\* the setTimeout callback of handleError
rateTimerFired(w) ==
  LET w1 == [w EXCEPT !.reconnectTimer = NoTimer] IN
  IF ~w1.stopped THEN connect(w1) ELSE w1

\* the setInterval callback of startPing
pingTick(w) ==
  IF IsOpen(w)
  THEN [w EXCEPT !.out = Append(@, [sock |-> w.ws, type |-> "ping", seq |-> 0])]
  ELSE w

\* ---------------------------------------------------------- the normalizer
\* An event: from.name, text and timestamp may be missing (<<>>, <<>>, 0); the
\* metadata bag may hold any key, seq and eventType included (0, "": no key).
\* Texts are sequences of pieces; a template string is their concatenation.
EventTypes == {"dm_message", "chat_mention", "zone_broadcast"}
MetadataBags == [seq : {0, 9}, eventType : {"", "spoofed"}, buildingId : {0, 7}]
CityEvents == [seq : Seqs, eventType : EventTypes, name : {<<>>, <<"Ann">>},
               text : {<<>>, <<"hi">>}, timestamp : {0, 5}, metadata : MetadataBags]

\* String.prototype.trim on a template whose last placeholder may be empty: the
\* blank that precedes an empty last piece goes
TrimEnd(pieces, last) == IF last = <<>> THEN pieces ELSE pieces \o <<" ">> \o last

formatEventText(event) ==
  LET name == IF event.name = <<>> THEN <<"Unknown">> ELSE event.name
      text == event.text
  IN CASE event.eventType = "dm_message" ->
            TrimEnd(<<"[DM from ">> \o name \o <<"]">>, text)
       [] event.eventType = "chat_mention" ->
            LET location == IF event.metadata.buildingId # 0
                            THEN <<"building ", event.metadata.buildingId>>
                            ELSE <<"Zone ", "?">>
            IN TrimEnd(<<"[Chat in ">> \o location \o <<"] ">> \o name \o <<":">>, text)
       [] OTHER ->
            TrimEnd(<<"[", event.eventType, "] ">> \o name \o <<":">>, text)

\* { eventType, seq, ...(event.metadata ?? {}) }: a key of the bag replaces the
\* key written before the spread
SpreadMetadata(event) ==
  [eventType |-> IF event.metadata.eventType # "" THEN event.metadata.eventType
                                                  ELSE event.eventType,
   seq |-> IF event.metadata.seq # 0 THEN event.metadata.seq ELSE event.seq,
   buildingId |-> event.metadata.buildingId]

\* a normalize that derives the id from the timestamp
normalizeIdFromTime(event, now) ==
  [id |-> <<"occ-", IF event.timestamp # 0 THEN event.timestamp ELSE now>>,
   timestamp |-> IF event.timestamp # 0 THEN event.timestamp ELSE now,
   channelId |-> "openclawcity",
   sender |-> IF event.name = <<>> THEN <<"Unknown">> ELSE event.name,
   text |-> formatEventText(event),
   metadata |-> SpreadMetadata(event)]

\* normalize(event) when Date.now() reads now
normalize(event, now) ==
  [id |-> <<"occ-", event.seq>>,
   timestamp |-> IF event.timestamp # 0 THEN event.timestamp ELSE now,
   channelId |-> "openclawcity",
   sender |-> IF event.name = <<>> THEN <<"Unknown">> ELSE event.name,
   text |-> formatEventText(event),
   metadata |-> SpreadMetadata(event)]

NoEnvelope == [id |-> <<"", 0>>, timestamp |-> 0, channelId |-> "", sender |-> <<>>,
               text |-> <<>>, metadata |-> [eventType |-> "", seq |-> 0, buildingId |-> 0]]
NoEvent == [seq |-> 0, eventType |-> "", name |-> <<>>, text |-> <<>>, timestamp |-> 0,
            metadata |-> [seq |-> 0, eventType |-> "", buildingId |-> 0]]
NoNormalizeCall == [a |-> NoEvent, b |-> NoEvent, first |-> NoEnvelope,
                    again |-> NoEnvelope, other |-> NoEnvelope]

\* ------------------------------------------------------------ input frames
RECURSIVE Ascending(_)
\* the ascending sequence of the members of a set of sequence numbers
Ascending(S) ==
  IF S = {} THEN <<>>
  ELSE LET m == CHOOSE x \in S : \A y \in S : x <= y
       IN <<m>> \o Ascending(S \ {m})

Frame(type, seq, reason, retryAfter, pending, pausedFlag) ==
  [type |-> type, seq |-> seq, reason |-> reason, retryAfter |-> retryAfter,
   pending |-> pending, paused |-> pausedFlag]

WelcomeFrames == {Frame("welcome", 0, "", 0, Ascending(S), p) :
                    S \in SUBSET Seqs, p \in {"absent", "true", "false"}}
EventFrames == {Frame("city_event", s, "", 0, <<>>, "absent") : s \in Seqs}
ErrorFrames == {Frame("error", 0, r, ra, <<>>, "absent") :
                  r \in {"auth_failed", "token_expired", "rate_limited", "other"},
                  ra \in {0, RetryAfterSec}}
OtherFrames == {Frame(t, 0, "", 0, <<>>, "absent") :
                  t \in {"paused", "resumed", "action_result", "unknown", "malformed"}}
Frames == WelcomeFrames \cup EventFrames \cup ErrorFrames \cup OtherFrames

\* ------------------------------------------------------------------- Init
\* ------------------------------------------------------ the accounts table
\* One account id. Instance i is the adapter created by the i-th startAccount
\* call, with the abort signal of that call. phase: "none" (not called yet),
\* "connecting" (awaiting adapter.connect()), "keepalive" (onAbort registered),
\* "exited" (onAbort has run), "returned" (the earlier revisions of startAccount:
\* the promise has resolved with a stop handle).
\* rev: the revision of startAccount: "keepalive" (index.ts 138-385) or "handle"
\* (index.ts 488-662 and 767-843)
Instances == 1..MaxInstances
HostRevisions == {"keepalive", "handle"}
NoInstance == [phase |-> "none", stopped |-> FALSE, aborted |-> FALSE]
NoAccounts == [entry |-> 0, rev |-> "keepalive", inst |-> [i \in Instances |-> NoInstance]]

\* adapter.stop() of instance i
stopInstance(a, i) == [a EXCEPT !.inst[i].stopped = TRUE]

\* an onAbort that removes the entry only if it is still its own adapter
onAbortOwnEntry(a, i) ==
  [stopInstance(a, i) EXCEPT !.entry = IF @ = i THEN 0 ELSE @, !.inst[i].phase = "exited"]

\* onAbort of startAccount call i: adapter.stop(); adapters.delete(accountId)
onAbort(a, i) ==
  [stopInstance(a, i) EXCEPT !.entry = 0, !.inst[i].phase = "exited"]

\* startAccount call i up to `await adapter.connect()`
startAccount(a, i) ==
  LET a1 == IF a.entry # 0 THEN stopInstance(a, a.entry) ELSE a
  IN [a1 EXCEPT !.entry = i, !.inst[i].phase = "connecting"]

\* startAccount call i after the await: the keep-alive promise, or in the earlier
\* revisions `return { stop }`
keepAlive(a, i) ==
  IF a.rev = "handle" THEN [a EXCEPT !.inst[i].phase = "returned"]
  ELSE IF a.inst[i].aborted THEN onAbort(a, i)
  ELSE [a EXCEPT !.inst[i].phase = "keepalive"]

\* stop() of the handle the earlier revisions return
handleStop(a, i) == [stopInstance(a, i) EXCEPT !.entry = 0, !.inst[i].phase = "exited"]

\* the abort signal of call i fires: the adapter's own listener, then onAbort if
\* it has been registered
abortSignalFires(a, i) ==
  LET a1 == stopInstance([a EXCEPT !.inst[i].aborted = TRUE], i)
  IN IF a1.inst[i].phase = "keepalive" THEN onAbort(a1, i) ELSE a1

NoBackoffCall == [base |-> 0, max |-> 0, attempt |-> 0, jitter |-> 0, delay |-> 0]

\* the adapter after its constructor
InitAdapter ==
  /\ variant \in Variants
  /\ state = "DISCONNECTED"
  /\ lastAckSeq = 0
  /\ attemptCount = 0
  /\ stopped = FALSE
  /\ paused = FALSE
  /\ reconnecting = FALSE
  /\ pingInterval = FALSE
  /\ reconnectTimer = NoTimer
  /\ pendingReject = 0
  /\ ws = 0
  /\ sockets = [i \in SockIds |-> NoSocket]
  /\ openP = [i \in SockIds |-> "none"]
  /\ nSock = 0
  /\ inflight = [s \in Seqs |-> 0]
  /\ drains = <<>>
  /\ out = <<>>
  /\ calls = <<>>
  /\ lastClose = 0
  /\ sched = 0
  /\ schedSinceWelcome = 0
  /\ op = Op("init", 0, "")
  /\ srvMax = 0
  /\ srvWelcomed = FALSE
  /\ chan = <<>>

Init == InitAdapter /\ bk = NoBackoffCall /\ nz = NoNormalizeCall /\ acct = NoAccounts

\* ---------------------------------------------------------------- actions
\* the current socket still has its listeners, so its events reach the adapter
Attached == ws # 0 /\ sockets[ws].attached

InflightCount == LET RECURSIVE Sum(_)
                     Sum(n) == IF n = 0 THEN 0 ELSE inflight[n] + Sum(n - 1)
                 IN Sum(MaxSeq)

\* the host invokes connect(): once on a new adapter (startAccount), or on a
\* stopped one, where it returns at once
Connect ==
  /\ nSock = 0 \/ stopped
  /\ Commit(connect(Cur))
  /\ op' = Op("connect", 0, "")
  /\ srvWelcomed' = FALSE /\ chan' = <<>>
  /\ UNCHANGED srvMax

\* a caller invokes connect() on an adapter that already has one running
ConnectAgain ==
  /\ nSock > 0 /\ nSock < MaxSockets /\ ~stopped
  /\ Commit(connect(Cur))
  /\ op' = Op("connectAgain", 0, "")
  /\ srvWelcomed' = FALSE /\ chan' = <<>>
  /\ UNCHANGED srvMax

AgentReply == [type |-> "agent_reply", seq |-> 0]

\* the consumer invokes sendReply()
SendReply ==
  /\ Commit(sendReply(Cur, AgentReply))
  /\ op' = Op("sendReply", 0, "")
  /\ UNCHANGED srvVars

\* the supplied AbortSignal fires; the adapter's listener is the only one
\* (startAccount adds its own only after connect() has resolved)
AbortFires ==
  /\ \E j \in JitterTenths : Commit(RunMicrotasks(Cur, abortListener(Cur), j))
  /\ op' = Op("abort", pendingReject, "")
  /\ srvWelcomed' = FALSE /\ chan' = <<>>
  /\ UNCHANGED srvMax

\* the supplied AbortSignal fires with both listeners present: the adapter's,
\* added first, then onAbort of startAccount
HostAbort ==
  /\ \E j \in JitterTenths :
       Commit(RunMicrotasks(Cur, hostOnAbort(abortListener(Cur)), j))
  /\ op' = Op("hostAbort", pendingReject, "")
  /\ srvWelcomed' = FALSE /\ chan' = <<>>
  /\ UNCHANGED srvMax

\* a caller (or the abort signal) invokes stop()
Stop ==
  /\ \E j \in JitterTenths : Commit(RunMicrotasks(Cur, stop(Cur), j))
  /\ op' = Op("stop", pendingReject, "")
  /\ srvWelcomed' = FALSE /\ chan' = <<>>
  /\ UNCHANGED srvMax

\* the transport emits 'open'
TransportOpen ==
  /\ Attached /\ sockets[ws].ready = "CONNECTING"
  /\ \E j \in JitterTenths : Commit(RunMicrotasks(Cur, onOpenEvent(Cur), j))
  /\ op' = Op("wsOpen", 0, "")
  /\ UNCHANGED srvVars

\* the transport starts closing: readyState leaves OPEN before 'close' is emitted
TransportClosing ==
  /\ Attached /\ sockets[ws].ready = "OPEN"
  /\ Commit([Cur EXCEPT !.sockets[ws].ready = "CLOSING"])
  /\ op' = Op("wsClosing", 0, "")
  /\ srvWelcomed' = FALSE /\ chan' = <<>>
  /\ UNCHANGED srvMax

\* the transport emits 'error'
TransportError ==
  /\ Attached /\ ~sockets[ws].errored
  /\ \E j \in JitterTenths : Commit(RunMicrotasks(Cur, onErrorEvent(Cur), j))
  /\ op' = Op("wsError", 0, "")
  /\ srvWelcomed' = FALSE /\ chan' = <<>>
  /\ UNCHANGED srvMax

CloseStep(code) ==
  /\ Attached /\ sockets[ws].ready # "CLOSED"
  /\ \E j \in JitterTenths : Commit(RunMicrotasks(Cur, onCloseEvent(Cur, code, j), j))
  /\ op' = Op("wsClose", code, "")
  /\ srvWelcomed' = FALSE /\ chan' = <<>>
  /\ UNCHANGED srvMax

\* the transport emits 'close'
TransportClose == \E code \in CloseCodes : CloseStep(code)

MessageStep(frame) ==
  /\ Attached /\ sockets[ws].ready = "OPEN"
  /\ frame.type = "city_event" => InflightCount < MaxInflight
  /\ (frame.type = "welcome" /\ Len(frame.pending) > 0) => Len(drains) < MaxDrains
  /\ \E j \in JitterTenths : Commit(RunMicrotasks(Cur, onMessageEvent(Cur, frame), j))
  /\ op' = Op(frame.type,
              CASE frame.type = "error" -> frame.retryAfter
                [] frame.type = "welcome" -> Len(frame.pending)
                [] OTHER -> frame.seq,
              IF frame.type = "welcome" THEN frame.paused ELSE frame.reason)

\* frames that carry no event: welcome without backlog, error, paused, resumed, ...
ControlFrames == {f \in Frames : f.type # "city_event" /\ Len(f.pending) = 0}
BacklogFrames == {f \in WelcomeFrames : Len(f.pending) > 0 /\ f.paused = "absent"}

\* the transport emits 'message' with a frame that carries no event
ReceiveControl ==
  /\ \E frame \in ControlFrames : MessageStep(frame)
  /\ UNCHANGED srvVars

\* the transport emits 'message' with a paused, resumed, action_result, unknown or
\* unparsable frame
ReceiveSignal ==
  /\ \E frame \in OtherFrames : MessageStep(frame)
  /\ UNCHANGED srvVars

\* the transport emits 'message' with a standalone city_event
ReceiveEvent ==
  /\ \E frame \in EventFrames : MessageStep(frame)
  /\ UNCHANGED srvVars

\* the transport emits 'message' with a welcome that carries a backlog
ReceiveBacklog ==
  /\ \E frame \in BacklogFrames : MessageStep(frame)
  /\ UNCHANGED srvVars

\* the promise returned by onMessage for a standalone event settles
CompleteStandalone ==
  \E s \in Seqs, outcome \in Outcomes :
    /\ inflight[s] > 0
    /\ Commit(handleCityEventSettled([Cur EXCEPT !.inflight[s] = @ - 1], s, outcome))
    /\ op' = Op("settled", s, outcome)
    /\ UNCHANGED srvVars

RemoveAt(s, k) == SubSeq(s, 1, k - 1) \o SubSeq(s, k + 1, Len(s))

\* one turn of the loop of dispatchPendingEvents after handleCityEvent returned
drainNext(w, k) ==
  LET d == w.drains[k] IN
  IF Len(d.rest) > 0
  THEN [handleCityEventCall(w, Head(d.rest)) EXCEPT
          !.drains[k] = [cur |-> Head(d.rest), rest |-> Tail(d.rest)]]
  ELSE [w EXCEPT !.drains = RemoveAt(@, k)]

\* the promise returned by onMessage for a backlog event settles
CompleteBacklog ==
  \E k \in 1..Len(drains), outcome \in Outcomes :
    /\ Commit(drainNext(handleCityEventSettled(Cur, drains[k].cur, outcome), k))
    /\ op' = Op("settledBacklog", drains[k].cur, outcome)
    /\ UNCHANGED srvVars

BackoffTimerFires ==
  /\ reconnectTimer.kind = "backoff"
  /\ nSock < MaxSockets
  /\ Commit(backoffTimerFired(Cur))
  /\ op' = Op("backoffTimer", 0, "")
  /\ srvWelcomed' = FALSE /\ chan' = <<>>
  /\ UNCHANGED srvMax

RateTimerFires ==
  /\ reconnectTimer.kind = "rate"
  /\ nSock < MaxSockets
  /\ Commit(rateTimerFired(Cur))
  /\ op' = Op("rateTimer", 0, "")
  /\ srvWelcomed' = FALSE /\ chan' = <<>>
  /\ UNCHANGED srvMax

PingTick ==
  /\ pingInterval
  /\ Commit(pingTick(Cur))
  /\ op' = Op("pingTick", 0, "")
  /\ UNCHANGED srvVars

\* connection lifecycle: every operation and transport event, frames without events
Next ==
  \/ Connect
  \/ Stop
  \/ TransportOpen
  \/ TransportClosing
  \/ TransportError
  \/ TransportClose
  \/ ReceiveControl
  \/ BackoffTimerFires
  \/ RateTimerFires
  \/ PingTick

Spec == Init /\ [][Next]_vars

\* the lifecycle with callers that invoke connect() and sendReply() at any time
NextCallers ==
  \/ Connect
  \/ ConnectAgain
  \/ SendReply
  \/ AbortFires
  \/ HostAbort
  \/ Stop
  \/ TransportOpen
  \/ TransportClosing
  \/ TransportError
  \/ TransportClose
  \/ ReceiveControl
  \/ BackoffTimerFires
  \/ RateTimerFires
  \/ PingTick

SpecCallers == Init /\ [][NextCallers]_vars

\* event dispatch across reconnects
NextDispatch ==
  \/ Connect
  \/ Stop
  \/ TransportOpen
  \/ TransportClose
  \/ ReceiveSignal
  \/ ReceiveBacklog
  \/ ReceiveEvent
  \/ CompleteStandalone
  \/ CompleteBacklog
  \/ BackoffTimerFires

SpecDispatch == Init /\ [][NextDispatch]_vars

\* ------------------------------------------------------- a replaying server
\* the watermark the server reads from the handshake of the current transport:
\* the URL parameter, or the lastAckSeq of the resume frame (0: none supplied)
SuppliedWatermark ==
  IF variant = "upgrade" THEN sockets[ws].urlLastAckSeq
  ELSE IF sockets[ws].first.type = "resume" THEN sockets[ws].first.seq ELSE 0

\* the server answers the handshake: welcome with every event above the watermark
ServerWelcome ==
  /\ Attached /\ sockets[ws].ready = "OPEN" /\ ~srvWelcomed
  /\ srvWelcomed' = TRUE
  /\ chan' = <<Frame("welcome", 0, "", 0,
                     Ascending({s \in 1..srvMax : s > SuppliedWatermark}), "absent")>>
  /\ UNCHANGED <<coreVars, srvMax>>

\* a new event comes to exist at the server; a welcomed connection gets it at once
ServerEmit ==
  /\ srvMax < MaxSeq
  /\ srvMax' = srvMax + 1
  /\ chan' = IF Attached /\ sockets[ws].ready = "OPEN" /\ srvWelcomed
             THEN Append(chan, Frame("city_event", srvMax + 1, "", 0, <<>>, "absent"))
             ELSE chan
  /\ UNCHANGED <<coreVars, srvWelcomed>>

\* the transport emits 'message' with the oldest frame in flight
Deliver ==
  /\ chan # <<>>
  /\ MessageStep(Head(chan))
  /\ chan' = Tail(chan)
  /\ UNCHANGED <<srvMax, srvWelcomed>>

\* a transport fails only while another one can still be created in this run
TransportErrorBounded == nSock < MaxSockets /\ TransportError
TransportCloseBounded == nSock < MaxSockets /\ TransportClose

\* a transport that errored goes on to emit 'close'
ClosingCompletes == Attached /\ sockets[ws].ready = "CLOSING" /\ TransportCloseBounded

NextDelivery ==
  \/ Connect
  \/ TransportOpen
  \/ TransportErrorBounded
  \/ TransportCloseBounded
  \/ ServerWelcome
  \/ ServerEmit
  \/ Deliver
  \/ CompleteStandalone
  \/ CompleteBacklog
  \/ BackoffTimerFires

\* the host starts the adapter, timers fire, the transport opens, the server
\* answers, frames in flight arrive and consumer callbacks return
SpecDelivery ==
  /\ Init /\ [][NextDelivery]_vars
  /\ WF_vars(Connect)
  /\ WF_vars(TransportOpen)
  /\ WF_vars(ClosingCompletes)
  /\ WF_vars(ServerWelcome)
  /\ WF_vars(Deliver)
  /\ WF_vars(CompleteStandalone)
  /\ WF_vars(CompleteBacklog)
  /\ WF_vars(BackoffTimerFires)

\* ------------------------------------------------ calculateBackoff on its own
\* configurations: below, at and above the 100 ms floor; the defaults; max < base
BaseValues == {10, 50, 100, 3000}
MaxValues == {60, 1000, 10000, 300000}

InitBackoff ==
  /\ InitAdapter /\ nz = NoNormalizeCall /\ acct = NoAccounts
  /\ bk \in [base : BaseValues, max : MaxValues, attempt : 0..MaxAttempt,
             jitter : -10..9, delay : {0}]

\* calculateBackoff(attempt) is called; Math.random() yields (jitter + 10) / 20
CallBackoff ==
  /\ bk.delay = 0
  /\ bk' = [bk EXCEPT !.delay = calculateBackoffExact(bk.base, bk.max, bk.attempt, bk.jitter)]
  /\ UNCHANGED <<sessionVars, srvVars, nz, acct>>

NextBackoff == CallBackoff

SpecBackoff == InitBackoff /\ [][NextBackoff]_vars

\* ------------------------------------------------------- normalize on its own
\* two readings of Date.now(), the second later
ClockFirst == 10
ClockLater == 11

InitNormalize ==
  /\ InitAdapter /\ variant = "upgrade" /\ bk = NoBackoffCall /\ acct = NoAccounts
  /\ nz \in [a : CityEvents, b : CityEvents, first : {NoEnvelope}, again : {NoEnvelope},
             other : {NoEnvelope}]

\* normalize(a) is called
NormalizeFirst ==
  /\ nz.first = NoEnvelope
  /\ nz' = [nz EXCEPT !.first = normalize(nz.a, ClockFirst)]
  /\ UNCHANGED <<sessionVars, srvVars, bk, acct>>

\* normalize(a) is called again, later, and normalize(b) too
NormalizeAgain ==
  /\ nz.first # NoEnvelope /\ nz.again = NoEnvelope
  /\ nz' = [nz EXCEPT !.again = normalize(nz.a, ClockLater),
                      !.other = normalize(nz.b, ClockLater)]
  /\ UNCHANGED <<sessionVars, srvVars, bk, acct>>

NextNormalize ==
  \/ NormalizeFirst
  \/ NormalizeAgain

SpecNormalize == InitNormalize /\ [][NextNormalize]_vars

\* ------------------------------------- frames and probes during a dispatch
\* one connection from connect() to its close or stop(), with standalone events,
\* every other frame, interval ticks, and consumers that complete late or never
NextConcurrent ==
  \/ Connect
  \/ Stop
  \/ TransportOpen
  \/ TransportClose
  \/ ReceiveControl
  \/ ReceiveEvent
  \/ CompleteStandalone
  \/ PingTick

SpecConcurrent == Init /\ [][NextConcurrent]_vars

\* ---------------------------------------------------- startAccount on its own
\* the gateway calls startAccount for the account id
StartAccount ==
  \E i \in Instances :
    /\ acct.inst[i].phase = "none"
    /\ \A k \in Instances : k < i => acct.inst[k].phase # "none"
    /\ acct' = startAccount(acct, i)
    /\ UNCHANGED <<sessionVars, srvVars, bk, nz>>

\* adapter.connect() of call i resolves (welcome, failed attempt, or stop)
ConnectResolved ==
  \E i \in Instances :
    /\ acct.inst[i].phase = "connecting"
    /\ acct' = keepAlive(acct, i)
    /\ UNCHANGED <<sessionVars, srvVars, bk, nz>>

\* the gateway aborts the signal of call i
AbortAccount ==
  \E i \in Instances :
    /\ acct.inst[i].phase # "none" /\ ~acct.inst[i].aborted
    /\ acct' = abortSignalFires(acct, i)
    /\ UNCHANGED <<sessionVars, srvVars, bk, nz>>

NextAccounts ==
  \/ StartAccount
  \/ ConnectResolved
  \/ AbortAccount

SpecAccounts == Init /\ [][NextAccounts]_vars

\* ------------------------------------------- startAccount around one adapter
\* The adapter of the lifecycle specification is the one startAccount call 1
\* creates; the gateway starts the account, aborts its signal, and (earlier
\* revisions) calls the handle's stop().
InitKeepAlive ==
  /\ InitAdapter /\ bk = NoBackoffCall /\ nz = NoNormalizeCall
  /\ acct \in {[NoAccounts EXCEPT !.rev = r] : r \in HostRevisions}

\* startAccount up to and including the call of adapter.connect()
HostStartAccount ==
  /\ acct.inst[1].phase = "none"
  /\ CommitAdapter(connect(Cur))
  /\ acct' = startAccount(acct, 1)
  /\ op' = Op("startAccount", 0, "")
  /\ srvWelcomed' = FALSE /\ chan' = <<>>
  /\ UNCHANGED <<srvMax, bk, nz>>

\* the promise of the connect() call startAccount awaits has settled: its
\* openSocket promise resolved, or rejected and the catch block ran
ConnectReturned == nSock >= 1 /\ openP[1] \in {"resolved", "rejected"}

\* startAccount resumes after `await adapter.connect()`
HostConnectReturned ==
  /\ acct.inst[1].phase = "connecting" /\ ConnectReturned
  /\ acct' = keepAlive(acct, 1)
  /\ \E j \in JitterTenths :
       CommitAdapter(IF acct'.inst[1].phase = "exited"
                     THEN RunMicrotasks(Cur, hostOnAbort(Cur), j) ELSE Cur)
  /\ op' = Op("connectReturned", 0, acct'.inst[1].phase)
  /\ UNCHANGED <<srvVars, bk, nz>>

\* the gateway aborts the account's signal: the adapter's listener, then onAbort
\* if startAccount has registered it
HostAbortSignal ==
  /\ acct.inst[1].phase # "none" /\ ~acct.inst[1].aborted
  /\ acct' = abortSignalFires(acct, 1)
  /\ \E j \in JitterTenths :
       CommitAdapter(RunMicrotasks(Cur,
         IF acct.inst[1].phase = "keepalive" THEN hostOnAbort(abortListener(Cur))
         ELSE abortListener(Cur), j))
  /\ op' = Op("abortSignal", 0, acct.inst[1].phase)
  /\ srvWelcomed' = FALSE /\ chan' = <<>>
  /\ UNCHANGED <<srvMax, bk, nz>>

\* the gateway calls stop() of the handle an earlier revision returned
HostHandleStop ==
  /\ acct.inst[1].phase = "returned"
  /\ acct' = handleStop(acct, 1)
  /\ \E j \in JitterTenths : CommitAdapter(RunMicrotasks(Cur, stop(Cur), j))
  /\ op' = Op("handleStop", 0, "")
  /\ srvWelcomed' = FALSE /\ chan' = <<>>
  /\ UNCHANGED <<srvMax, bk, nz>>

NextKeepAlive ==
  \/ HostStartAccount
  \/ HostConnectReturned
  \/ HostAbortSignal
  \/ HostHandleStop
  \/ TransportOpen
  \/ TransportClosing
  \/ TransportError
  \/ TransportClose
  \/ ReceiveControl
  \/ BackoffTimerFires
  \/ RateTimerFires
  \/ PingTick

SpecKeepAlive == InitKeepAlive /\ [][NextKeepAlive]_vars

TypeOK ==
  /\ state \in ConnectionState
  /\ lastAckSeq \in 0..MaxSeq
  /\ attemptCount \in 0..(MaxSockets + 1)
  /\ schedSinceWelcome \in 0..(MaxSockets + 1)
  /\ ws \in 0..MaxSockets
  /\ pendingReject \in 0..MaxSockets
  /\ nSock \in 0..MaxSockets

\* ------------------------------------------------------------------ claims
\* the current transport has emitted 'close' and nothing replaced it
TransportDown == ws # 0 /\ sockets[ws].ready = "CLOSED"

\* C2: whenever the adapter is not stopped, the last close code was not 4000 and
\* the transport is down (not open, not being opened), a reconnect timer is pending
C2_ReconnectScheduled ==
  (~stopped /\ lastClose # SupersededCode /\ TransportDown) => reconnectTimer # NoTimer

\* C3: connect() never hangs: once a welcome has been received (the state is
\* CONNECTED) or stop() has been invoked, no connect() call is still awaiting its
\* openSocket promise
C3_ConnectSettles ==
  (stopped \/ state = "CONNECTED") => \A p \in SockIds : openP[p] # "pending"

\* the current transport has emitted both 'error' and 'close'
ErrorAndClose == Attached /\ sockets[ws].errored /\ sockets[ws].ready = "CLOSED"

\* C8: when both 'error' and 'close' fired for the current connection (and no
\* rate-limit timer took the cycle over), exactly one backoff reconnect has been
\* scheduled for it and its timer is pending
C8_ExactlyOneReconnect ==
  (ErrorAndClose /\ ~stopped /\ reconnectTimer.kind # "rate")
    => (sched = 1 /\ reconnectTimer.kind = "backoff")

\* never more than one backoff reconnect per connection (the part of C8 that the
\* guard does enforce)
AtMostOneReconnect == sched <= 1

RateLimitFrame == op.name = "error" /\ op.res = "rate_limited" /\ op.seq > 0

\* C9: a rate_limited frame with retryAfter > 0 leaves exactly the retryAfter timer
\* pending (whatever was pending before, and whatever connect()'s catch does next);
\* while it is pending, nothing but its own firing (or stop) removes or replaces
\* it, no backoff reconnect is scheduled, and the only transport opened is the one
\* its firing opens
C9_RateLimitOverride ==
  [][/\ (RateLimitFrame' /\ ~stopped')
        => reconnectTimer' = [kind |-> "rate", delay |-> op'.seq * 1000]
     /\ reconnectTimer.kind = "rate"
        => /\ \/ reconnectTimer' = reconnectTimer
              \/ stopped' /\ reconnectTimer' = NoTimer
              \/ op'.name = "rateTimer" /\ reconnectTimer' = NoTimer /\ nSock' = nSock + 1
           /\ op'.name # "rateTimer" => (nSock' = nSock /\ sched' = sched)
           /\ attemptCount' <= attemptCount]_vars

\* witness of C9: the rate-limit timer replaced a pending backoff timer (the guard
\* is still set from scheduling it) and the transport has closed since
C9_Witness ==
  /\ reconnectTimer.kind = "rate" /\ reconnecting /\ sched = 1
  /\ TransportDown /\ ~stopped

AuthFrame == op.name = "error" /\ op.res \in {"auth_failed", "token_expired"}

\* C10: an auth_failed or token_expired frame invokes onError and stops the
\* adapter: DISCONNECTED, no timer, no transport; and a stopped adapter stays
\* DISCONNECTED, sets no timer and opens no transport ever again
C10_AuthFatal ==
  [][/\ AuthFrame'
        => /\ stopped' /\ state' = "DISCONNECTED"
           /\ reconnectTimer' = NoTimer /\ ~pingInterval' /\ ws' = 0
           /\ \E i \in DOMAIN calls' : calls'[i].cb = "onError" /\ calls'[i].st = op'.res
     /\ stopped
        => /\ stopped' /\ state' = "DISCONNECTED"
           /\ reconnectTimer' = NoTimer /\ ~pingInterval' /\ ws' = 0
           /\ nSock' = nSock]_vars

\* witness of C10: a token_expired frame arrived after the welcome and the adapter
\* has since refused a connect()
C10_Witness ==
  /\ stopped /\ op.name = "connect" /\ state = "DISCONNECTED"
  /\ \E p \in SockIds : openP[p] = "resolved"
  /\ lastClose = 0

\* ---------------------------------------------------- claims about dispatch
Handshake(las) == IF las > 0 THEN [type |-> "resume", seq |-> las]
                             ELSE [type |-> "hello", seq |-> 0]

\* C4: a new transport of the upgrade-time revision carries lastAckSeq in its URL
\* iff lastAckSeq > 0 (and writes nothing on 'open'); in the post-open revision the
\* 'open' handler writes exactly one frame, the first of the transport: hello when
\* lastAckSeq = 0, resume with the current lastAckSeq when it is > 0
C4_HandshakeSelection ==
  [][/\ nSock' # nSock
        => /\ sockets'[ws'].first = NoFrame
           /\ variant = "upgrade"
                => sockets'[ws'].urlLastAckSeq = (IF lastAckSeq > 0 THEN lastAckSeq ELSE 0)
           /\ variant = "frame" => sockets'[ws'].urlLastAckSeq = 0
     /\ op'.name = "wsOpen"
        => /\ variant = "upgrade" => out' = <<>>
           /\ variant = "frame"
                => /\ out' = <<[sock |-> ws, type |-> Handshake(lastAckSeq).type,
                                seq |-> Handshake(lastAckSeq).seq]>>
                   /\ sockets'[ws].first = Handshake(lastAckSeq)
                   /\ sockets[ws].first = NoFrame]_vars

\* witness of C4: after an event was acknowledged and the adapter reconnected, the
\* new transport's first frame is resume with that sequence number
C4_Witness ==
  /\ variant = "frame" /\ nSock = 2 /\ ws = 2 /\ lastAckSeq = MaxSeq
  /\ sockets[ws].first = [type |-> "resume", seq |-> MaxSeq]

Settled == op.name \in {"settled", "settledBacklog"}

AckFrames(o) == {i \in DOMAIN o : o[i].type = "ack"}

\* C5: when the onMessage callback of an event with seq s throws or rejects, the
\* dispatch still ends with lastAckSeq = s and, if the transport is open, exactly
\* one ack frame for s written on it (none otherwise); onMessage is not called
\* again for s
C5_AckDespiteFailure ==
  [][(Settled' /\ op'.res = "throw")
       => /\ lastAckSeq' = op'.seq
          /\ IsOpen(Cur) => out' = <<[sock |-> ws, type |-> "ack", seq |-> op'.seq]>>
          /\ ~IsOpen(Cur) => out' = <<>>
          /\ \A i \in DOMAIN calls' :
                ~(calls'[i].cb = "onMessage" /\ calls'[i].seq = op'.seq)]_vars

\* witness of C5: the callback of a backlog event threw while the transport was
\* open; the ack went out and the watermark moved
C5_Witness ==
  /\ op = Op("settledBacklog", 1, "throw") /\ lastAckSeq = 1
  /\ out = <<[sock |-> ws, type |-> "ack", seq |-> 1]>>

\* the dispatch that a settle step completes was pending before the step
WasPending ==
  \/ op'.name = "settled" /\ inflight[op'.seq] > 0
        /\ inflight' = [inflight EXCEPT ![op'.seq] = @ - 1]
  \/ op'.name = "settledBacklog" /\ \E k \in DOMAIN drains : drains[k].cur = op'.seq

RECURSIVE IsAscending(_)
IsAscending(q) == Len(q) <= 1 \/ (q[1] < q[2] /\ IsAscending(Tail(q)))

MessageCalls(c) == {i \in DOMAIN c : c[i].cb = "onMessage"}

\* C7: a welcome with a backlog calls onMessage for its first event only; the
\* callback of each later event starts in the step that completes (and
\* acknowledges) its predecessor and in no other; what is left is always ascending
C7_BacklogOrder ==
  [][/\ (op'.name = "welcome" /\ op'.seq > 0)
        => /\ Len(drains') = Len(drains) + 1
           /\ LET d == drains'[Len(drains')] IN
                /\ Len(d.rest) = op'.seq - 1
                /\ IsAscending(<<d.cur>> \o d.rest)
                /\ Cardinality(MessageCalls(calls')) = 1
                /\ \E i \in DOMAIN calls' : calls'[i] = Call("onMessage", d.cur, "")
     /\ op'.name = "settledBacklog"
        => \E k \in DOMAIN drains :
             /\ drains[k].cur = op'.seq /\ lastAckSeq' = op'.seq
             /\ IF drains[k].rest = <<>>
                THEN drains' = RemoveAt(drains, k) /\ calls' = <<>>
                ELSE /\ drains' = [drains EXCEPT ![k] =
                                     [cur |-> Head(drains[k].rest), rest |-> Tail(drains[k].rest)]]
                     /\ calls' = <<Call("onMessage", Head(drains[k].rest), "")>>
                     /\ Head(drains[k].rest) > op'.seq
     /\ op'.name \notin {"welcome", "settledBacklog", "city_event"}
        => MessageCalls(calls') = {}]_vars

\* witness of C7: the second event of a backlog was handed over by the step that
\* completed and acknowledged the first
C7_Witness ==
  /\ op.name = "settledBacklog" /\ op.seq = 1 /\ lastAckSeq = 1
  /\ calls = <<Call("onMessage", 2, "")>>
  /\ \E k \in DOMAIN drains : drains[k] = [cur |-> 2, rest |-> <<>>]

\* ---------------------------------------------------- claims about delivery
\* onMessage is being called for event s in this macrotask
HandedNow(s) == \E i \in DOMAIN calls : calls[i] = Call("onMessage", s, "")

\* C1: with a server that replays everything above the supplied watermark on each
\* connection, callbacks that return and an adapter that is not stopped, every
\* event the server comes to hold is handed to onMessage at some point
C1_AtLeastOnce ==
  \A s \in Seqs : [](srvMax < s) \/ <>HandedNow(s) \/ <>stopped

\* witness of C1: after a transport drop, the welcome of the second connection
\* replays the last event and onMessage is called for it
C1_Witness ==
  /\ nSock = 2 /\ lastClose # 0 /\ ~stopped
  /\ op.name = "welcome" /\ op.seq > 0 /\ srvMax = MaxSeq
  /\ \E s \in Seqs : HandedNow(s) /\ s > lastAckSeq

\* ------------------------------------------------- claims about stop/connect
Superseded == op.name = "wsClose" /\ op.seq = SupersededCode

\* C11: a 'close' with code 4000 on an adapter that is not stopped stops it: the
\* stopped flag is set, the state is DISCONNECTED, no reconnect timer is pending,
\* the attempt counter is unchanged and no transport is opened
C11_Supersession ==
  [][(Superseded' /\ ~stopped)
       => /\ stopped' /\ state' = "DISCONNECTED"
          /\ reconnectTimer' = NoTimer
          /\ attemptCount' = attemptCount
          /\ nSock' = nSock /\ ws' = 0]_vars

\* the same for the upgrade-time revision alone, whose close handler reads the code
C11_SupersessionUpgrade ==
  [][(Superseded' /\ ~stopped /\ variant = "upgrade")
       => /\ stopped' /\ state' = "DISCONNECTED"
          /\ reconnectTimer' = NoTimer
          /\ attemptCount' = attemptCount
          /\ nSock' = nSock /\ ws' = 0]_vars

\* no WebSocket object has listeners of the adapter
NoListeners == \A i \in SockIds : ~sockets[i].attached

\* C12: stop() leaves the adapter stopped and DISCONNECTED with the liveness
\* timer and the reconnect timer cancelled and the transport detached and
\* closed; from then on every step (a later connect() included) keeps it so
\* and creates no transport
C12_StopFinal ==
  [][/\ op'.name = "stop"
        => /\ stopped' /\ state' = "DISCONNECTED"
           /\ ~pingInterval' /\ reconnectTimer' = NoTimer
           /\ ws' = 0 /\ NoListeners'
           /\ ws # 0 => sockets'[ws] = DetachedSocket
           /\ nSock' = nSock
     /\ stopped
        => /\ stopped' /\ state' = "DISCONNECTED"
           /\ ~pingInterval' /\ reconnectTimer' = NoTimer
           /\ ws' = 0 /\ NoListeners'
           /\ sockets' = sockets /\ nSock' = nSock]_vars

\* witness of C12: stop() was called while a backoff timer was pending after a
\* dropped connection, and a later connect() has been refused
C12_Witness ==
  /\ stopped /\ op.name = "connect" /\ state = "DISCONNECTED"
  /\ reconnecting /\ sched = 1 /\ lastClose = 1006 /\ nSock = 1
  /\ reconnectTimer = NoTimer /\ ws = 0

\* the fields of the adapter, its sockets, promises and pending dispatches
adapterVars == <<state, lastAckSeq, attemptCount, stopped, paused, reconnecting,
                 pingInterval, reconnectTimer, pendingReject, ws, sockets, openP,
                 nSock, inflight, drains>>

\* C13: stop() on a stopped adapter changes no field, no socket and no promise,
\* invokes no callback (no onStateChange) and writes no frame
C13_StopIdempotent ==
  [][(op'.name = "stop" /\ stopped)
       => /\ UNCHANGED adapterVars
          /\ calls' = <<>> /\ out' = <<>>]_vars

\* witness of C13: stop() has been called on an adapter that was already stopped
\* (its one transport never closed, so the stop that ended the connection
\* notified DISCONNECTED, and this one notified nothing)
C13_Witness ==
  /\ op.name = "stop" /\ stopped /\ calls = <<>>
  /\ nSock = 1 /\ lastClose = 0 /\ openP[1] = "rejected"

\* the promise returned by the connect() call that created transport p settles
\* in this step
ConnectSettles(p) == openP[p] = "pending" /\ openP'[p] # "pending"

CallbacksNamed(c, cb) == {i \in DOMAIN c : c[i].cb = cb}

\* C15: an error frame that arrives while the attempt of the current transport
\* is still awaiting its welcome fails that attempt (its promise is rejected, so
\* connect() settles); the state does not become CONNECTED, onWelcome is not
\* called, attemptCount is not reset, the liveness timer is not started, and
\* onError is called once; after auth_failed the state is DISCONNECTED
C15_PreWelcomeError ==
  [][(op'.name = "error" /\ openP[ws] = "pending")
       => /\ openP'[ws] = "rejected"
          /\ connectOutcome(openP'[ws]) = "resolved"
          /\ state' # "CONNECTED"
          /\ CallbacksNamed(calls', "onWelcome") = {}
          /\ Cardinality(CallbacksNamed(calls', "onError")) = 1
          /\ attemptCount' >= attemptCount
          /\ pingInterval' => pingInterval
          /\ pendingReject' = 0
          /\ op'.res = "auth_failed" => (state' = "DISCONNECTED" /\ stopped')]_vars

\* witness of C15: the second attempt (after one dropped connection) got
\* auth_failed as its first frame; the attempt is rejected, the counter is still
\* 1 and the adapter is DISCONNECTED
C15_Witness ==
  /\ op.name = "error" /\ op.res = "auth_failed"
  /\ nSock = 2 /\ openP[2] = "rejected" /\ attemptCount = 1
  /\ state = "DISCONNECTED" /\ ~pingInterval /\ stopped

\* a connection attempt is awaiting its welcome
AttemptInFlight == pendingReject # 0 /\ openP[pendingReject] = "pending"

\* C16: connect() invoked while an attempt is in flight or while CONNECTED
\* creates no transport, leaves the existing one attached and current, and
\* leaves the state as it was
C16_ConnectIdempotent ==
  [][(op'.name = "connectAgain" /\ (AttemptInFlight \/ state = "CONNECTED"))
       => /\ nSock' = nSock /\ ws' = ws /\ sockets' = sockets
          /\ state' = state /\ openP' = openP]_vars

\* ------------------------------------------------ claims about outbound frames
FramesOfType(o, t) == {i \in DOMAIN o : o[i].type = t}

Connected == state = "CONNECTED" /\ IsOpen(Cur)

\* everything of the adapter except what a written frame leaves on its socket
fieldVars == <<state, lastAckSeq, attemptCount, stopped, paused, reconnecting,
               pingInterval, reconnectTimer, pendingReject, ws, openP, nSock,
               inflight, drains>>

\* C17 as stated: sendReply writes exactly one frame when the state is CONNECTED
\* and the transport is open, and nothing in every other situation
C17_ReplyIffConnected ==
  [][op'.name = "sendReply"
       => out' = IF Connected THEN <<[sock |-> ws, type |-> "agent_reply", seq |-> 0]>>
                              ELSE <<>>]_vars

\* C17 as the code has it: sendReply writes exactly one frame, on the current
\* transport, iff that transport is open, whatever the state (so also while
\* CONNECTING, between 'open' and the welcome); otherwise it writes nothing; it
\* changes no field, invokes no callback, and no later step writes the reply
C17_ReplyIffOpen ==
  [][/\ op'.name = "sendReply"
        => /\ out' = IF IsOpen(Cur)
                     THEN <<[sock |-> ws, type |-> "agent_reply", seq |-> 0]>>
                     ELSE <<>>
           /\ UNCHANGED fieldVars /\ calls' = <<>>
           /\ \A i \in SockIds : sockets'[i].ready = sockets[i].ready
                                   /\ sockets'[i].attached = sockets[i].attached
     /\ op'.name # "sendReply" => FramesOfType(out', "agent_reply") = {}]_vars

\* witness of C17: a reply was written while the state was CONNECTING, on a
\* transport that is open and has not been welcomed
C17_Witness ==
  /\ op.name = "sendReply" /\ state = "CONNECTING" /\ openP[ws] = "pending"
  /\ out = <<[sock |-> ws, type |-> "agent_reply", seq |-> 0]>>

\* C18: sendAck(seq), which runs when a dispatch completes, sets lastAckSeq to
\* seq whether or not the transport is open and writes one ack frame only when
\* it is open; no other step writes an ack or moves lastAckSeq, so an ack that
\* was not written is never written later; and every new transport carries the
\* current lastAckSeq as its watermark (URL parameter, or resume frame on 'open')
C18_AckLostWhenClosed ==
  [][/\ Settled'
        => /\ lastAckSeq' = op'.seq
           /\ out' = IF IsOpen(Cur)
                     THEN <<[sock |-> ws, type |-> "ack", seq |-> op'.seq]>>
                     ELSE <<>>
     /\ ~Settled' => (FramesOfType(out', "ack") = {} /\ lastAckSeq' = lastAckSeq)
     /\ (nSock' # nSock /\ variant = "upgrade")
        => sockets'[ws'].urlLastAckSeq = lastAckSeq
     /\ (op'.name = "wsOpen" /\ variant = "frame" /\ lastAckSeq > 0)
        => out' = <<[sock |-> ws, type |-> "resume", seq |-> lastAckSeq]>>]_vars

\* witness of C18: a dispatch completed after the transport had closed; the
\* watermark moved to its seq, no ack was written, and the reconnect that will
\* carry that seq is pending
C18_Witness ==
  /\ Settled /\ out = <<>> /\ lastAckSeq = op.seq
  /\ TransportDown /\ reconnectTimer.kind = "backoff" /\ ~stopped

C20_OnlyCurrentListens ==
  [][/\ \A i \in SockIds : sockets'[i].attached => i = ws'
     /\ (ws # 0 /\ ws' # ws)
        => (sockets'[ws] = DetachedSocket /\ ~sockets'[ws].attached)
     /\ nSock' # nSock
        => /\ ws' = nSock' /\ sockets'[ws'].attached
           /\ \A i \in SockIds : i # ws' => ~sockets'[i].attached]_vars

\* witness of C20: the rate-limit timer replaced a transport that had not
\* closed; the old one is detached and closed, the new one is listened to
C20_Witness ==
  /\ op.name = "rateTimer" /\ nSock = 2 /\ ws = 2 /\ lastClose = 0
  /\ sockets[1] = DetachedSocket /\ sockets[2].attached

\* --------------------------------------------- claims about the liveness timer
\* C21: the liveness timer is armed exactly while the state is CONNECTED
C21_PingWhileConnected == pingInterval <=> state = "CONNECTED"

\* the part of C21 about probes: a tick writes a probe only in state CONNECTED
C21_ProbeOnlyConnected ==
  [][(op'.name = "pingTick" /\ out' # <<>>) => state = "CONNECTED"]_vars

\* what the code does keep: a tick writes one ping on the current transport iff
\* that transport is open, and changes nothing
C21_ProbeOnlyOpen ==
  [][op'.name = "pingTick"
       => /\ out' = IF IsOpen(Cur) THEN <<[sock |-> ws, type |-> "ping", seq |-> 0]>>
                                   ELSE <<>>
          /\ UNCHANGED adapterVars]_vars

\* ------------------------------------------------ claims about frame effects
PauseOps == {"welcome", "paused", "resumed"}

\* C22: the pause flag is set by a welcome to the flag the welcome declares
\* (false when it declares none), by a paused frame to true and by a resumed
\* frame to false; no other step changes it
C22_PauseFlag ==
  [][/\ op'.name = "welcome" => paused' = (op'.res = "true")
     /\ op'.name = "paused" => paused'
     /\ op'.name = "resumed" => ~paused'
     /\ op'.name \notin PauseOps => paused' = paused]_vars

\* the same for the upgrade-time revision alone, whose handleWelcome reads the flag
C22_PauseFlagUpgrade ==
  [][variant = "upgrade"
       => /\ op'.name = "welcome" => paused' = (op'.res = "true")
          /\ op'.name = "paused" => paused'
          /\ op'.name = "resumed" => ~paused'
          /\ op'.name \notin PauseOps => paused' = paused]_vars

\* C23: a welcome frame leaves the state CONNECTED, attemptCount 0 and the
\* reconnecting guard clear, whatever they were, and calls onWelcome once
C23_WelcomeResets ==
  [][op'.name = "welcome"
       => /\ state' = "CONNECTED"
          /\ attemptCount' = 0 /\ ~reconnecting'
          /\ Cardinality(CallbacksNamed(calls', "onWelcome")) = 1
          /\ state # "CONNECTED"
               => \E i \in DOMAIN calls' : calls'[i] = Call("onStateChange", 0, "CONNECTED")]_vars

\* witness of C23: the welcome arrived on the second transport, which a backoff
\* reconnect opened after the first one dropped
C23_Witness ==
  /\ op.name = "welcome" /\ nSock = 2 /\ ws = 2 /\ lastClose = 1006
  /\ state = "CONNECTED" /\ attemptCount = 0 /\ ~reconnecting
  /\ openP[2] = "resolved" /\ openP[1] # "resolved"

\* ----------------------------------------------------- claims about backoff
\* cap = min(base * 2^a, max), in milliseconds
Cap == Min(bk.base * Pow2(bk.attempt), bk.max)

\* C24 as stated: every delay lies within [max(100, cap*0.7), cap*1.3]
\* (delays are in hundredths of a millisecond)
C24_BackoffRange ==
  bk.delay # 0 => (bk.delay >= Max(10000, Cap * 70) /\ bk.delay <= Cap * 130)

\* C24 as the code has it: every delay lies within
\* [max(100, cap*0.7), max(100, cap*1.3)]: the 100 ms floor applies to the upper
\* end too, so the stated upper bound cap*1.3 holds only when cap*1.3 >= 100;
\* the call changes nothing of the adapter
C24_BackoffRangeFloored ==
  bk.delay # 0
    => /\ bk.delay >= Max(10000, Cap * 70)
       /\ bk.delay <= Max(10000, Cap * 130)
       /\ Cap * 130 >= 10000 => bk.delay <= Cap * 130
       /\ state = "DISCONNECTED" /\ attemptCount = 0 /\ reconnectTimer = NoTimer

\* witness of C24: a configuration whose cap*1.3 is below the floor; the delay
\* is the floor, above the stated upper bound
C24_Witness ==
  /\ bk.delay = 10000 /\ Cap * 130 < 10000 /\ bk.attempt > 0

\* C25: a frame for which parseFrame returns null changes no field of the
\* adapter, no socket, no promise and no pending dispatch, invokes no callback
\* and writes no frame; the transport keeps its listeners and its readyState, so
\* the frames that follow are handled as before
C25_MalformedDropped ==
  [][op'.name = "malformed"
       => /\ UNCHANGED adapterVars
          /\ calls' = <<>> /\ out' = <<>>
          /\ Attached' /\ IsOpen(Cur)]_vars

\* witness of C25: an unparsable frame arrived before the welcome; the attempt
\* is still pending on an open transport
C25_Witness ==
  /\ op.name = "malformed" /\ state = "CONNECTING"
  /\ pendingReject = ws /\ openP[ws] = "pending" /\ sockets[ws].ready = "OPEN"

AbortOps == {"abort", "hostAbort"}

\* C27: when the supplied signal fires, the adapter ends stopped, DISCONNECTED,
\* without timers and without transport, whatever it was doing; DISCONNECTED is
\* notified once if the state changes (never twice), the attempt that was
\* awaiting its welcome is rejected, and on an adapter already stopped nothing
\* happens; this is so with and without the host's own handler calling stop()
C27_AbortStopsOnce ==
  [][op'.name \in AbortOps
       => /\ stopped' /\ state' = "DISCONNECTED"
          /\ ws' = 0 /\ NoListeners'
          /\ ~pingInterval' /\ reconnectTimer' = NoTimer
          /\ calls' = IF state # "DISCONNECTED"
                      THEN <<Call("onStateChange", 0, "DISCONNECTED")>> ELSE <<>>
          /\ op'.seq # 0 => (openP[op'.seq] = "pending" /\ openP'[op'.seq] = "rejected")
          /\ stopped => UNCHANGED adapterVars]_vars

\* witness of C27: the signal fired in state CONNECTED with the host's handler
\* present too; one notification, the adapter is stopped
C27_Witness ==
  /\ op.name = "hostAbort" /\ stopped /\ state = "DISCONNECTED"
  /\ calls = <<Call("onStateChange", 0, "DISCONNECTED")>>
  /\ openP[1] = "resolved" /\ nSock = 1 /\ lastClose = 0

\* ---------------------------------------------------- claims about the states
AllowedTransitions == {<<"DISCONNECTED", "CONNECTING">>, <<"CONNECTING", "CONNECTED">>,
                       <<"CONNECTED", "DISCONNECTED">>, <<"CONNECTING", "DISCONNECTED">>}

\* the states getState() can return, and the transitions between them
StateCycle ==
  [][/\ state' \in {"DISCONNECTED", "CONNECTING", "CONNECTED"}
     /\ state' # state => <<state, state'>> \in AllowedTransitions]_vars

\* a started adapter that is DISCONNECTED and not stopped has a reconnect pending
DisconnectedNotTerminal ==
  (state = "DISCONNECTED" /\ ~stopped /\ nSock > 0) => reconnectTimer # NoTimer

\* C28: the state is DISCONNECTED, CONNECTING or CONNECTED; it changes only
\* along DISCONNECTED -> CONNECTING -> CONNECTED -> DISCONNECTED and CONNECTING
\* -> DISCONNECTED; and DISCONNECTED without a pending reconnect occurs only
\* before the first connect() and after stop
C28_StateMachine ==
  [][/\ state' \in {"DISCONNECTED", "CONNECTING", "CONNECTED"}
     /\ state' # state => <<state, state'>> \in AllowedTransitions
     /\ (state' = "DISCONNECTED" /\ ~stopped' /\ nSock' > 0)
          => reconnectTimer' # NoTimer]_vars

\* what holds of the code: only the three states occur, and every notification
\* of onStateChange carries the new state, once per change
C28_ThreeStates ==
  [][/\ state' \in {"DISCONNECTED", "CONNECTING", "CONNECTED"}
     /\ state' # state
          => \E i \in DOMAIN calls' : calls'[i] = Call("onStateChange", 0, state')]_vars

\* ------------------------------------------------ claims about the accounts table
Running == {i \in Instances : acct.inst[i].phase # "none" /\ ~acct.inst[i].stopped}

\* C29: at most one adapter of the account is not stopped, and while one is,
\* the table maps the account id to it
C29_AccountTable ==
  /\ Cardinality(Running) <= 1
  /\ \A i \in Running : acct.entry = i

\* the part of C29 that holds until an abort handler has run: startAccount stops
\* the adapter it finds in the table and leaves its own there
C29_ReplaceStopsOld ==
  [][\A i \in Instances :
       (acct.inst[i].phase = "none" /\ acct'.inst[i].phase # "none")
         => /\ acct'.entry = i
            /\ acct.entry # 0 => acct'.inst[acct.entry].stopped]_vars

\* ----------------------------------------- claims about concurrent dispatch
\* the step is a 'message' or an interval tick that arrives while the onMessage
\* call of at least one standalone event is pending
DuringDispatch == InflightCount > 0 /\ Attached /\ sockets[ws].ready = "OPEN"

\* C30: while the onMessage call of a standalone event is pending, a further
\* event is passed to onMessage at once, paused/resumed set the flag at once, an
\* error frame reaches onError at once, and the interval tick writes its ping
C30_DispatchNeverBlocks ==
  [][DuringDispatch =>
       /\ op'.name = "city_event" =>
            /\ calls' = <<Call("onMessage", op'.seq, "")>>
            /\ inflight' = [inflight EXCEPT ![op'.seq] = @ + 1]
       /\ op'.name = "paused" => paused'
       /\ op'.name = "resumed" => ~paused'
       /\ op'.name = "error" => Len(calls') > 0 /\ calls'[1] = Call("onError", 0, op'.res)
       /\ op'.name = "pingTick" => out' = <<[sock |-> ws, type |-> "ping", seq |-> 0]>>]_vars

\* two standalone events are in dispatch and a paused frame has just been processed
C30_Witness == InflightCount = 2 /\ op.name = "paused" /\ paused

\* a ping has been written while two standalone events are in dispatch
C30_WitnessProbe ==
  /\ InflightCount = 2 /\ op.name = "pingTick"
  /\ out = <<[sock |-> ws, type |-> "ping", seq |-> 0]>>

\* an error frame has reached onError while a standalone event is in dispatch
C30_WitnessError ==
  /\ InflightCount > 0 /\ op.name = "error"
  /\ Len(calls) > 0 /\ calls[1].cb = "onError"

\* the second of two standalone events has been passed to onMessage while the
\* first is still pending
C30_WitnessSecondEvent ==
  /\ InflightCount = 2 /\ op.name = "city_event"
  /\ calls = <<Call("onMessage", op.seq, "")>>

\* ------------------------------------------------ claims about reconnection
TimerOps == {"backoffTimer", "rateTimer"}

\* C31: when a timer callback starts connect() the reconnecting guard is false,
\* and while the adapter is not stopped the guard is true only while a reconnect
\* timer is pending
C31_ReconnectGuard ==
  [][/\ (op'.name \in TimerOps /\ ~stopped') => ~reconnecting'
     /\ (~stopped' /\ reconnecting') => reconnectTimer' # NoTimer]_vars

\* the part of C31 that holds: an attempt started by the backoff timer begins
\* with the guard false and no timer pending, and a step that sets the guard
\* leaves a backoff timer pending
C31_BackoffClearsGuard ==
  [][/\ (op'.name = "backoffTimer") => ~reconnecting' /\ reconnectTimer' = NoTimer
     /\ (~reconnecting /\ reconnecting') => reconnectTimer'.kind = "backoff"]_vars

\* the step scheduled a backoff reconnect
ScheduledBackoff == sched' = sched + 1

\* C32: the attempt counter equals the number of backoff reconnects scheduled
\* since the last welcome; a step that schedules one takes its delay from the
\* counter it found and adds exactly one; every other step (a rate-limit timer
\* being set, a call suppressed by the guard or by stop) leaves it unchanged,
\* except a welcome, which resets it
C32_AttemptCounter ==
  [][/\ attemptCount' = schedSinceWelcome'
     /\ ScheduledBackoff =>
          /\ attemptCount' = attemptCount + 1
          /\ reconnectTimer'.kind = "backoff"
          /\ \E j \in JitterTenths : reconnectTimer'.delay = calculateBackoff(attemptCount, j)
     /\ (~ScheduledBackoff /\ op'.name # "welcome") => attemptCount' = attemptCount]_vars

\* a second backoff reconnect has been scheduled without a welcome in between,
\* with the delay of attempt 1
C32_Witness ==
  /\ attemptCount = 2 /\ schedSinceWelcome = 2
  /\ reconnectTimer.kind = "backoff"
  /\ reconnectTimer.delay \in {calculateBackoff(1, j) : j \in JitterTenths}

\* a scheduleReconnect call was suppressed by the guard: the transport closed
\* while a rate-limit timer was pending and the guard was still set
C32_WitnessSuppressed ==
  /\ op.name = "wsClose" /\ reconnecting /\ reconnectTimer.kind = "rate"
  /\ attemptCount = 1

\* ------------------------------------------------ claims about error frames
\* the current transport has received its welcome
Welcomed == ws # 0 /\ openP[ws] = "resolved"

\* the step handled an error frame that is neither fatal nor a rate limit with
\* a retryAfter
NonFatalErrorStep ==
  /\ op'.name = "error"
  /\ \/ op'.res = "other"
     \/ op'.res = "rate_limited" /\ op'.seq = 0

\* C33: a non-fatal error frame on a welcomed transport calls onError once and
\* changes nothing else: no field, neither timer, not the transport, and no
\* reconnect is scheduled by it
C33_NonFatalError ==
  [][(Welcomed /\ NonFatalErrorStep) =>
       /\ calls' = <<Call("onError", 0, op'.res)>>
       /\ out' = <<>>
       /\ UNCHANGED <<state, stopped, paused, lastAckSeq, attemptCount, reconnecting,
                      pingInterval, reconnectTimer, pendingReject, ws, sockets, openP,
                      nSock, sched>>]_vars

\* a non-fatal error frame has been handled on a connection in state CONNECTED
C33_Witness ==
  /\ op.name = "error" /\ op.res = "other"
  /\ Welcomed /\ state = "CONNECTED" /\ sockets[ws].ready = "OPEN"
  /\ calls = <<Call("onError", 0, "other")>>

\* ------------------------------------------------- claims about cancellation
\* C34: once stop() has returned, onMessage is not called for any further event
\* (the rest of a backlog included) and lastAckSeq no longer changes
C34_NoDispatchAfterStop ==
  [][stopped =>
       /\ \A k \in DOMAIN calls' : calls'[k].cb # "onMessage"
       /\ lastAckSeq' = lastAckSeq]_vars

\* the part of C34 that holds: after stop() no frame is written and no handler
\* of the transport runs, so no standalone event is dispatched
C34_NoFrameAfterStop ==
  [][stopped =>
       /\ out' = <<>>
       /\ inflight' \in {inflight} \cup
            {[inflight EXCEPT ![s] = @ - 1] : s \in Seqs}]_vars

\* onMessage has been called on a stopped adapter: the loop of
\* dispatchPendingEvents went on to the next backlog event
C34_DispatchedAfterStop ==
  /\ stopped /\ op.name = "settledBacklog"
  /\ \E k \in DOMAIN calls : calls[k].cb = "onMessage"

\* C35: at most one backlog drain is in progress: the loop started by one welcome
\* has finished before the loop of a later welcome's backlog starts
C35_OneDrain == Len(drains) <= 1

\* the events of two drains in progress: the same event is with the consumer
\* twice at once
C35_SameEventTwice ==
  Len(drains) = 2 /\ drains[1].cur = drains[2].cur

\* ------------------------------------------- claims about the healthy connection
\* C36: in state CONNECTED no backoff reconnect timer is pending; the only
\* reconnect timer that may be pending is one the rate-limit handler set
C36_NoBackoffWhileConnected ==
  state = "CONNECTED" => reconnectTimer.kind # "backoff"

\* the part of C36 that holds: handleWelcome itself sets no timer, so a welcome
\* that finds no reconnect timer pending leaves none
C36_NoBackoffAfterReconnect ==
  [][(op'.name = "welcome" /\ reconnectTimer.kind = "none")
       => reconnectTimer'.kind = "none"]_vars

\* the backoff timer has fired after the welcome (the ping interval the welcome
\* started is still armed) and replaced the welcomed transport
C36_TornDown ==
  /\ op.name = "backoffTimer" /\ state = "CONNECTING" /\ nSock = 2
  /\ pingInterval /\ sockets[1] = DetachedSocket

\* ----------------------------------------------- claims about envelope metadata
\* C37: the envelope's metadata.seq and metadata.eventType are the event's seq and
\* category, also when the event's metadata bag has keys seq or eventType; every
\* other field of the bag is in the envelope metadata unchanged
C37_MetadataKeepsSeqAndType ==
  nz.first # NoEnvelope
    => /\ nz.first.metadata.seq = nz.a.seq
       /\ nz.first.metadata.eventType = nz.a.eventType
       /\ nz.first.metadata.buildingId = nz.a.metadata.buildingId

\* the part of C37 that holds: the other fields of the bag are unchanged, and seq
\* and eventType are the event's when the bag has no key of that name
C37_MetadataWithoutClash ==
  nz.first # NoEnvelope
    => /\ nz.first.metadata.buildingId = nz.a.metadata.buildingId
       /\ nz.a.metadata.seq = 0 => nz.first.metadata.seq = nz.a.seq
       /\ nz.a.metadata.eventType = "" => nz.first.metadata.eventType = nz.a.eventType

\* an envelope whose metadata.eventType is the bag's, not the event's category
C37_Spoofed ==
  /\ nz.first # NoEnvelope /\ nz.a.eventType = "dm_message"
  /\ nz.first.metadata.eventType = "spoofed" /\ nz.first.metadata.seq = 9

\* ------------------------------------------------ claims about the keep-alive
\* the promise startAccount returned has resolved
PromiseResolved == acct.inst[1].phase \in {"returned", "exited"}

\* C38: the promise returned by startAccount resolves only after the account's
\* abort signal has fired, and then the adapter is stopped and the table has no
\* entry; an internal stop, a disconnect or a failed attempt does not resolve it
C38_KeepAlive ==
  PromiseResolved => (acct.inst[1].aborted /\ stopped /\ acct.entry = 0)

\* C38 for the revision of startAccount with the keep-alive promise
C38_KeepAliveRevision ==
  (acct.rev = "keepalive" /\ PromiseResolved)
    => (acct.inst[1].aborted /\ stopped /\ acct.entry = 0)

\* the adapter stopped itself (auth failure or supersession) and the keep-alive
\* promise is still pending
C38_InternalStopPending ==
  /\ acct.rev = "keepalive" /\ acct.inst[1].phase = "keepalive"
  /\ stopped /\ ~acct.inst[1].aborted

\* the keep-alive promise has resolved on the abort signal
C38_ResolvedOnAbort ==
  /\ acct.rev = "keepalive" /\ acct.inst[1].phase = "exited" /\ op.name = "abortSignal"

\* the promise of an earlier revision has resolved on the welcome: no abort, the
\* adapter running and in the table
C38_ResolvedWithoutAbort ==
  /\ acct.rev = "handle" /\ acct.inst[1].phase = "returned"
  /\ ~acct.inst[1].aborted /\ ~stopped /\ state = "CONNECTED" /\ acct.entry = 1
====
